---- MODULE Spec2Model ----
(***************************************************************************)
(* A model of sidecar/sidecar.py: the module-level startup (configuration  *)
(* resolution, model loading, the listener) and the two Flask routes,      *)
(* /chat and /health.                                                      *)
(*                                                                         *)
(* Strings are sequences of chunks: "org/Name-4bit" is                     *)
(* <<"org", "/", "Name-4bit">>, the empty string is <<>>.  A JSON value is *)
(* a record [t, s, n, o]: t its type, s the chunks of a string, n the      *)
(* number, o the key/value function of an object.  Python's None is the    *)
(* JSON null.                                                              *)
(***************************************************************************)
EXTENDS Integers, Sequences, FiniteSets, TLC

VARIABLES
    pc,             \* position of the module-level code
    config_file,    \* what is at config_path on disk
    run_as_main,    \* __name__ == '__main__'
    config,         \* the parsed document
    MODEL_NAME, MAX_TOKENS, SYSTEM_PROMPT,
    model,          \* the (model, tokenizer) pair load() returned
    load_calls,     \* number of calls of load()
    listening,      \* app.run() has bound the listener
    reqs,           \* the requests in flight, one per server thread
    health_resp,    \* the response of the latest GET /health
    gen_failed      \* some call of generate() has raised

vars == <<pc, config_file, run_as_main, config, MODEL_NAME, MAX_TOKENS,
          SYSTEM_PROMPT, model, load_calls, listening, reqs, health_resp,
          gen_failed>>

globals == <<MODEL_NAME, MAX_TOKENS, SYSTEM_PROMPT, model>>

-----------------------------------------------------------------------------
(* Bounds *)

\* requests handled at the same time (the server is threaded)
MaxInFlight == 2
\* chunks of a model identifier
MaxChunks == 3

-----------------------------------------------------------------------------
(* JSON and Python values *)

JStr(s) == [t |-> "str", s |-> s, n |-> 0, o |-> <<>>]
JInt(n) == [t |-> "int", s |-> <<>>, n |-> n, o |-> <<>>]
JNull == [t |-> "null", s |-> <<>>, n |-> 0, o |-> <<>>]
JArr == [t |-> "array", s |-> <<>>, n |-> 0, o |-> <<>>]
JObj(o) == [t |-> "object", s |-> <<>>, n |-> 0, o |-> o]
\* a name that is not bound yet
Unset == [t |-> "unset", s |-> <<>>, n |-> 0, o |-> <<>>]

\* dict.get(key, default)
Get(d, key, default) == IF key \in DOMAIN d.o THEN d.o[key] ELSE default

\* Python's truth value of a JSON value
Truthy(v) ==
    CASE v.t = "str" -> v.s # <<>>
      [] v.t = "int" -> v.n # 0
      [] v.t = "object" -> DOMAIN v.o # {}
      [] OTHER -> FALSE

\* an object of one optional key
Opt(key, vals) == {<<>>} \cup {[k \in {key} |-> v] : v \in vals}

\* the union of two objects with disjoint keys
Merge(a, b) == [k \in DOMAIN a \cup DOMAIN b |-> IF k \in DOMAIN a THEN a[k] ELSE b[k]]

-----------------------------------------------------------------------------
(* The inputs *)

Chunks == {"/", "Name"}

RECURSIVE SeqsUpTo(_, _)
SeqsUpTo(S, n) ==
    IF n = 0 THEN {<<>>}
    ELSE LET shorter == SeqsUpTo(S, n - 1)
         IN shorter \cup {Append(s, c) : s \in {x \in shorter : Len(x) = n - 1}, c \in S}

ModelNames == SeqsUpTo(Chunks, MaxChunks) \ {<<>>}

DEFAULT_MAX_TOKENS == 256

MaxTokensValues == {JInt(0), JInt(64)}

SystemPromptValues == {JStr(<<>>), JStr(<<"Be terse.">>)}

\* the documents that can be at config_path
ConfigObjects ==
    {Merge(Merge(m, t), s) :
        m \in Opt("model", {JStr(x) : x \in ModelNames}),
        t \in Opt("max_tokens", MaxTokensValues),
        s \in Opt("system_prompt", SystemPromptValues)}

ConfigFiles ==
    {[st |-> "missing", doc |-> JNull], [st |-> "malformed", doc |-> JNull],
     [st |-> "json", doc |-> JArr]}
    \cup {[st |-> "json", doc |-> JObj(o)] : o \in ConfigObjects}

\* the JSON bodies of POST /chat
Prompts == {JStr(<<>>), JStr(<<"Hi">>), JNull}

Bodies == {JArr} \cup {JObj(o) : o \in Opt("prompt", Prompts)}

\* the texts generate() returns
Texts == {<<>>, <<"Hello">>}

-----------------------------------------------------------------------------
(* Requests *)

NoResp == [status |-> 0, body |-> <<>>]

IdleReq ==
    [stage |-> "idle", body |-> JNull, prompt |-> JNull,
     messages |-> <<>>, formatted_prompt |-> <<>>, calls |-> <<>>, resp |-> NoResp]

\* jsonify(body), status
Jsonify(body, status) == [status |-> status, body |-> body]

\* what Flask answers when a view raises (debug=False)
InternalServerError == [status |-> 500, body |-> [html |-> <<"Internal Server Error">>]]

Slots == 1 .. MaxInFlight

-----------------------------------------------------------------------------
(* Startup: the module-level code *)

Init ==
    /\ pc = "read_config"
    /\ config_file \in ConfigFiles
    /\ run_as_main \in BOOLEAN
    /\ config = Unset
    /\ MODEL_NAME = Unset
    /\ MAX_TOKENS = Unset
    /\ SYSTEM_PROMPT = Unset
    /\ model = [loaded |-> FALSE, id |-> <<>>]
    /\ load_calls = 0
    /\ listening = FALSE
    /\ reqs = [r \in Slots |-> IdleReq]
    /\ health_resp = NoResp
    /\ gen_failed = FALSE

\* with open(config_path) as f: config = json.load(f)
ReadConfig ==
    /\ pc = "read_config"
    /\ IF config_file.st = "json"
       THEN /\ config' = config_file.doc
            /\ pc' = "resolve"
       ELSE /\ pc' = "crashed"
            /\ UNCHANGED config
    /\ UNCHANGED <<config_file, run_as_main, MODEL_NAME, MAX_TOKENS, SYSTEM_PROMPT,
                   model, load_calls, listening, reqs, health_resp, gen_failed>>

\* config.get("model", <a default>) in place of config["model"]
Subscript_Default(d, key) == [raised |-> FALSE, value |-> Get(d, key, JStr(<<"Name">>))]

\* d[key]: raises TypeError on a document that is no object, KeyError on an
\* object without the key
Subscript(d, key) ==
    IF d.t = "object" /\ key \in DOMAIN d.o
    THEN [raised |-> FALSE, value |-> d.o[key]]
    ELSE [raised |-> TRUE, value |-> Unset]

\* the document's max_tokens is ignored
EffectiveMaxTokens_Ignored(d) == JInt(DEFAULT_MAX_TOKENS)

\* config.get("max_tokens", 256)
EffectiveMaxTokens(d) == Get(d, "max_tokens", JInt(DEFAULT_MAX_TOKENS))

\* config.get("system_prompt", "")
EffectiveSystemPrompt(d) == Get(d, "system_prompt", JStr(<<>>))

\* MODEL_NAME = config["model"]; MAX_TOKENS = ...; SYSTEM_PROMPT = ...
ResolveConfig ==
    /\ pc = "resolve"
    /\ IF ~Subscript(config, "model").raised
       THEN /\ MODEL_NAME' = Subscript(config, "model").value
            /\ MAX_TOKENS' = EffectiveMaxTokens(config)
            /\ SYSTEM_PROMPT' = EffectiveSystemPrompt(config)
            /\ pc' = "load"
       ELSE /\ pc' = "crashed"
            /\ UNCHANGED <<MODEL_NAME, MAX_TOKENS, SYSTEM_PROMPT>>
    /\ UNCHANGED <<config_file, run_as_main, config, model, load_calls, listening,
                   reqs, health_resp, gen_failed>>

\* model, tokenizer = load(MODEL_NAME)
LoadModel ==
    /\ pc = "load"
    /\ load_calls' = load_calls + 1
    /\ \E ok \in BOOLEAN :
        IF ok
        THEN /\ model' = [loaded |-> TRUE, id |-> MODEL_NAME.s]
             /\ pc' = "main"
        ELSE /\ pc' = "crashed"
             /\ UNCHANGED model
    /\ UNCHANGED <<config_file, run_as_main, config, MODEL_NAME, MAX_TOKENS,
                   SYSTEM_PROMPT, listening, reqs, health_resp, gen_failed>>

\* if __name__ == '__main__': app.run(host='0.0.0.0', port=8080, debug=False)
Main ==
    /\ pc = "main"
    /\ IF run_as_main
       THEN /\ listening' = TRUE
            /\ pc' = "serving"
       ELSE /\ pc' = "imported"
            /\ UNCHANGED listening
    /\ UNCHANGED <<config_file, run_as_main, config, MODEL_NAME, MAX_TOKENS,
                   SYSTEM_PROMPT, model, load_calls, reqs, health_resp, gen_failed>>

Startup == ReadConfig \/ ResolveConfig \/ LoadModel \/ Main

-----------------------------------------------------------------------------
(* POST /chat *)

\* not prompt
Not(v) == ~Truthy(v)

\* the system message is appended after the user message
BuildMessages_UserFirst(system_prompt, prompt) ==
    LET messages == <<[role |-> "user", content |-> prompt]>>
    IN IF Truthy(system_prompt)
       THEN Append(messages, [role |-> "system", content |-> system_prompt])
       ELSE messages

\* messages = []; if SYSTEM_PROMPT: messages.append(system); messages.append(user)
BuildMessages(system_prompt, prompt) ==
    LET messages == <<>>
        with_system ==
            IF Truthy(system_prompt)
            THEN Append(messages, [role |-> "system", content |-> system_prompt])
            ELSE messages
    IN Append(with_system, [role |-> "user", content |-> prompt])

\* What the tokenizer's chat template renders (tokenize=False,
\* add_generation_prompt=True): every message between its role marker and an
\* end marker, then the marker that opens the assistant's turn.
RECURSIVE RenderMessages(_)
RenderMessages(messages) ==
    IF messages = <<>> THEN <<>>
    ELSE <<"<|" \o Head(messages).role \o "|>">> \o Head(messages).content.s
         \o <<"<|end|>">> \o RenderMessages(Tail(messages))

ApplyChatTemplate(messages) == RenderMessages(messages) \o <<"<|assistant|>">>

\* the response field is left empty
ChatResponse_Empty(response_text) == Jsonify([response |-> <<>>], 200)

\* return jsonify({"response": response_text})
ChatResponse(response_text) == Jsonify([response |-> response_text], 200)

\* return jsonify({"error": "No prompt provided"}), 400
NoPromptResponse == Jsonify([error |-> <<"No prompt provided">>], 400)

\* one call of the external library, as the request saw it
Call(fn, messages, prompt, max_tokens, raised, ret) ==
    [fn |-> fn, messages |-> messages, prompt |-> prompt, max_tokens |-> max_tokens,
     raised |-> raised, ret |-> ret]

\* a thread that handles no request; threads are interchangeable, so a request
\* is given to the first free one
Free(r) == reqs[r].stage \in {"idle", "responded"}

\* @app.route('/chat', methods=['POST']) hands the request to chat() on a free
\* thread: data = request.json; prompt = data.get("prompt", "");
\* if not prompt: return jsonify({"error": "No prompt provided"}), 400
ChatReceive(r, body) ==
    /\ listening
    /\ Free(r)
    /\ \A q \in Slots : Free(q) => r <= q
    /\ LET data == body
           req == [IdleReq EXCEPT !.body = body]
       IN IF data.t # "object"
          THEN \* data.get raises AttributeError
               reqs' = [reqs EXCEPT ![r] = [req EXCEPT !.stage = "responded",
                                                       !.resp = InternalServerError]]
          ELSE LET prompt == Get(data, "prompt", JStr(<<>>))
               IN IF Not(prompt)
                  THEN reqs' = [reqs EXCEPT ![r] = [req EXCEPT !.stage = "responded",
                                                               !.resp = NoPromptResponse]]
                  ELSE reqs' = [reqs EXCEPT ![r] = [req EXCEPT !.stage = "accepted",
                                                               !.prompt = prompt]]
    /\ UNCHANGED <<pc, config_file, run_as_main, config, MODEL_NAME, MAX_TOKENS,
                   SYSTEM_PROMPT, model, load_calls, listening, health_resp, gen_failed>>

\* the handler assigns the module's SYSTEM_PROMPT: the system message is sent
\* once and then dropped
ChatFormat_ClearsSystemPrompt(r) ==
    /\ reqs[r].stage = "accepted"
    /\ LET messages == BuildMessages(SYSTEM_PROMPT, reqs[r].prompt)
           formatted_prompt == ApplyChatTemplate(messages)
       IN reqs' = [reqs EXCEPT
                     ![r].stage = "formatted",
                     ![r].messages = messages,
                     ![r].formatted_prompt = formatted_prompt,
                     ![r].calls = Append(@, Call("apply_chat_template", messages,
                                                 <<>>, JNull, FALSE, formatted_prompt))]
    /\ SYSTEM_PROMPT' = JStr(<<>>)
    /\ UNCHANGED <<pc, config_file, run_as_main, config, MODEL_NAME, MAX_TOKENS,
                   model, load_calls, listening, health_resp, gen_failed>>

\* messages = ...; formatted_prompt = tokenizer.apply_chat_template(messages, ...)
ChatFormat(r) ==
    /\ reqs[r].stage = "accepted"
    /\ LET messages == BuildMessages(SYSTEM_PROMPT, reqs[r].prompt)
       IN \E raises \in BOOLEAN :
           IF raises
           THEN reqs' = [reqs EXCEPT
                           ![r].stage = "responded",
                           ![r].messages = messages,
                           ![r].calls = Append(@, Call("apply_chat_template", messages,
                                                       <<>>, JNull, TRUE, <<>>)),
                           ![r].resp = InternalServerError]
           ELSE LET formatted_prompt == ApplyChatTemplate(messages)
                IN reqs' = [reqs EXCEPT
                              ![r].stage = "formatted",
                              ![r].messages = messages,
                              ![r].formatted_prompt = formatted_prompt,
                              ![r].calls = Append(@, Call("apply_chat_template", messages,
                                                          <<>>, JNull, FALSE,
                                                          formatted_prompt))]
    /\ UNCHANGED <<pc, config_file, run_as_main, config, MODEL_NAME, MAX_TOKENS,
                   SYSTEM_PROMPT, model, load_calls, listening, health_resp, gen_failed>>

\* a failure of generate() is caught and answered as an empty success
ChatGenerate_Swallow(r) ==
    /\ reqs[r].stage = "formatted"
    /\ \/ /\ reqs' = [reqs EXCEPT
                        ![r].stage = "responded",
                        ![r].calls = Append(@, Call("generate", <<>>,
                                                    reqs[r].formatted_prompt, MAX_TOKENS,
                                                    TRUE, <<>>)),
                        ![r].resp = ChatResponse(<<>>)]
          /\ gen_failed' = TRUE
       \/ /\ \E response_text \in Texts :
               reqs' = [reqs EXCEPT
                          ![r].stage = "responded",
                          ![r].calls = Append(@, Call("generate", <<>>,
                                                      reqs[r].formatted_prompt, MAX_TOKENS,
                                                      FALSE, response_text)),
                          ![r].resp = ChatResponse(response_text)]
          /\ UNCHANGED gen_failed
    /\ UNCHANGED <<pc, config_file, run_as_main, config, MODEL_NAME, MAX_TOKENS,
                   SYSTEM_PROMPT, model, load_calls, listening, health_resp>>

\* a failure of generate() is retried once
ChatGenerate_Retry(r) ==
    /\ reqs[r].stage = "formatted"
    /\ LET failed == Call("generate", <<>>, reqs[r].formatted_prompt, MAX_TOKENS, TRUE, <<>>)
       IN \/ /\ reqs' = [reqs EXCEPT
                           ![r].stage = "responded",
                           ![r].calls = Append(Append(@, failed), failed),
                           ![r].resp = InternalServerError]
             /\ gen_failed' = TRUE
          \/ /\ \E response_text \in Texts, retried \in BOOLEAN :
                  reqs' = [reqs EXCEPT
                             ![r].stage = "responded",
                             ![r].calls =
                                 Append(IF retried THEN Append(@, failed) ELSE @,
                                        Call("generate", <<>>, reqs[r].formatted_prompt,
                                             MAX_TOKENS, FALSE, response_text)),
                             ![r].resp = ChatResponse(response_text)]
             /\ gen_failed' = \E i \in 1 .. Len(reqs'[r].calls) : reqs'[r].calls[i].raised
    /\ UNCHANGED <<pc, config_file, run_as_main, config, MODEL_NAME, MAX_TOKENS,
                   SYSTEM_PROMPT, model, load_calls, listening, health_resp>>

\* response_text = generate(model, tokenizer, prompt=formatted_prompt,
\*                          max_tokens=MAX_TOKENS); return jsonify({"response": ...})
ChatGenerate(r) ==
    /\ reqs[r].stage = "formatted"
    /\ \/ /\ reqs' = [reqs EXCEPT
                        ![r].stage = "responded",
                        ![r].calls = Append(@, Call("generate", <<>>,
                                                    reqs[r].formatted_prompt, MAX_TOKENS,
                                                    TRUE, <<>>)),
                        ![r].resp = InternalServerError]
          /\ gen_failed' = TRUE
       \/ /\ \E response_text \in Texts :
               reqs' = [reqs EXCEPT
                          ![r].stage = "responded",
                          ![r].calls = Append(@, Call("generate", <<>>,
                                                      reqs[r].formatted_prompt, MAX_TOKENS,
                                                      FALSE, response_text)),
                          ![r].resp = ChatResponse(response_text)]
          /\ UNCHANGED gen_failed
    /\ UNCHANGED <<pc, config_file, run_as_main, config, MODEL_NAME, MAX_TOKENS,
                   SYSTEM_PROMPT, model, load_calls, listening, health_resp>>

-----------------------------------------------------------------------------
(* GET /health *)

\* str.split("/"): the pieces between the separators
RECURSIVE Split(_)
Split(s) ==
    IF s = <<>> THEN << <<>> >>
    ELSE LET rest == Split(Tail(s))
         IN IF Head(s) = "/"
            THEN << <<>> >> \o rest
            ELSE << <<Head(s)>> \o Head(rest) >> \o Tail(rest)

\* MODEL_NAME.split("/")[0]
ShortName_First(name) == LET parts == Split(name) IN parts[1]

\* MODEL_NAME.split("/")[-1]
ShortName(name) == LET parts == Split(name) IN parts[Len(parts)]

Health ==
    /\ listening
    /\ LET model_name == ShortName(MODEL_NAME.s)
       IN health_resp' = Jsonify([status |-> <<"ok">>, model |-> model_name], 200)
    /\ UNCHANGED <<pc, config_file, run_as_main, config, MODEL_NAME, MAX_TOKENS,
                   SYSTEM_PROMPT, model, load_calls, listening, reqs, gen_failed>>

-----------------------------------------------------------------------------

Chat ==
    \E r \in Slots :
        \/ \E body \in Bodies : ChatReceive(r, body)
        \/ ChatFormat(r)
        \/ ChatGenerate(r)

Next == Startup \/ Chat \/ Health

Spec == Init /\ [][Next]_vars

-----------------------------------------------------------------------------
(* What the claims speak of *)

Responded(r) == reqs[r].stage = "responded"

\* the body is no JSON object, or an object without the key
HasNoPromptField(body) == body.t # "object" \/ "prompt" \notin DOMAIN body.o

HasPrompt(body, p) == body.t = "object" /\ "prompt" \in DOMAIN body.o /\ body.o["prompt"] = p

\* the body's prompt is a string that is not empty
HasNonEmptyStringPrompt(body) ==
    /\ body.t = "object"
    /\ "prompt" \in DOMAIN body.o
    /\ body.o["prompt"].t = "str"
    /\ body.o["prompt"].s # <<>>

\* the calls of fn the request in slot r has made
CallsOf(r, fn) == {i \in 1 .. Len(reqs[r].calls) : reqs[r].calls[i].fn = fn}

\* a request whose call of generate() returned
GenerateReturned(r) ==
    \E i \in CallsOf(r, "generate") : ~reqs[r].calls[i].raised

\* the part of an identifier after its last "/", all of it when it has none
AfterLastSlash(name) ==
    LET slashes == {i \in 1 .. Len(name) : name[i] = "/"}
    IN IF slashes = {} THEN name
       ELSE LET last == CHOOSE i \in slashes : \A j \in slashes : j <= i
            IN SubSeq(name, last + 1, Len(name))

\* the configuration document
Document == config_file.doc

HasNoModelKey == Document.t # "object" \/ "model" \notin DOMAIN Document.o

-----------------------------------------------------------------------------
(* C1: every POST /chat whose JSON body has no prompt field, or has the     *)
(* empty string as prompt, is answered 400 {"error": "No prompt provided"}. *)
C1_MissingPromptIs400 ==
    \A r \in Slots :
        (Responded(r) /\ (HasNoPromptField(reqs[r].body) \/ HasPrompt(reqs[r].body, JStr(<<>>))))
            => reqs[r].resp = [status |-> 400, body |-> [error |-> <<"No prompt provided">>]]

(* C2: a POST /chat whose prompt is a non-empty string, and whose call of   *)
(* generate() returned a text, is answered 200 with a response field that   *)
(* holds that text.                                                         *)
C2_NonEmptyPromptIs200 ==
    \A r \in Slots :
        (Responded(r) /\ HasNonEmptyStringPrompt(reqs[r].body) /\ GenerateReturned(r))
            => /\ reqs[r].resp.status = 200
               /\ DOMAIN reqs[r].resp.body = {"response"}
               /\ \A i \in CallsOf(r, "generate") :
                      reqs[r].resp.body["response"] = reqs[r].calls[i].ret

C2_Witness ==
    \E r \in Slots :
        /\ Responded(r)
        /\ HasPrompt(reqs[r].body, JStr(<<"Hi">>))
        /\ reqs[r].resp = [status |-> 200, body |-> [response |-> <<"Hello">>]]

(* C3: a request is accepted only after the configuration was resolved from *)
(* a well-formed document with a model key and the model was loaded; with   *)
(* the file missing, malformed or without the key the listener never binds. *)
C3_NoListenerWithoutConfig ==
    LET served == health_resp # NoResp \/ \E r \in Slots : reqs[r].stage # "idle"
        resolved ==
            /\ config_file.st = "json"
            /\ Document.t = "object"
            /\ "model" \in DOMAIN Document.o
            /\ MODEL_NAME = Document.o["model"]
    IN /\ (listening \/ served) => (resolved /\ model.loaded /\ load_calls = 1)
       /\ (config_file.st # "json" \/ HasNoModelKey) => (~listening /\ ~served)

C3_Witness ==
    /\ pc = "crashed"
    /\ config_file.st = "json"
    /\ Document.t = "object"
    /\ "model" \notin DOMAIN Document.o
    /\ "max_tokens" \in DOMAIN Document.o
    /\ run_as_main
    /\ ~listening

(* C4: the conversation handed to the chat template ends with the one user  *)
(* message, whose content is the request's prompt; it holds a system        *)
(* message exactly when the configured system_prompt is not empty, and then *)
(* one only, with that content, before the user message.                    *)
C4_Conversation ==
    \A r \in Slots : \A i \in CallsOf(r, "apply_chat_template") :
        LET messages == reqs[r].calls[i].messages
            users == {k \in 1 .. Len(messages) : messages[k].role = "user"}
            systems == {k \in 1 .. Len(messages) : messages[k].role = "system"}
        IN /\ users = {Len(messages)}
           /\ messages[Len(messages)].content = reqs[r].body.o["prompt"]
           /\ (systems # {}) <=> (SYSTEM_PROMPT.s # <<>>)
           /\ systems # {} =>
                /\ systems = {1}
                /\ Len(messages) = 2
                /\ messages[1].content = SYSTEM_PROMPT

C4_Witness ==
    \E r \in Slots : \E i \in CallsOf(r, "apply_chat_template") :
        reqs[r].calls[i].messages =
            <<[role |-> "system", content |-> JStr(<<"Be terse.">>)],
              [role |-> "user", content |-> JStr(<<"Hi">>)]>>

(* C5: once the server is up, whatever requests came before, GET /health    *)
(* can be served and answers 200 with status "ok" and model the part of the *)
(* configured identifier after its last "/".                                *)
C5_Health ==
    listening =>
        /\ ENABLED Health
        /\ health_resp # NoResp =>
            health_resp = [status |-> 200,
                           body |-> [status |-> <<"ok">>,
                                     model |-> AfterLastSlash(Document.o["model"].s)]]

C5_Witness ==
    /\ gen_failed
    /\ \E r \in Slots : Responded(r) /\ reqs[r].resp.status = 400
    /\ MODEL_NAME = JStr(<<"Name", "/", "Name">>)
    /\ health_resp.status = 200
    /\ health_resp.body["model"] = <<"Name">>

(* C6: a call of generate() that raises leaves the server running: the       *)
(* request is answered with an HTTP error, and the step changes nothing     *)
(* that any other or later request reads (the configuration, the model,     *)
(* the listener, the other requests).                                       *)
GenerateRaises(r) ==
    /\ reqs[r].stage = "formatted"
    /\ reqs'[r].stage = "responded"
    /\ LET calls == reqs'[r].calls
       IN calls[Len(calls)].fn = "generate" /\ calls[Len(calls)].raised

C6_FailureStep ==
    \A r \in Slots :
        GenerateRaises(r) =>
            /\ listening' /\ pc' = "serving"
            /\ reqs'[r].resp.status >= 400
            /\ "response" \notin DOMAIN reqs'[r].resp.body
            /\ globals' = globals
            /\ health_resp' = health_resp
            /\ \A q \in Slots \ {r} : reqs'[q] = reqs[q]

C6_GenerationFailureIsContained == [][C6_FailureStep]_vars

\* A generation has failed, and every thread, the one it failed on too, holds
\* the 200 of a request it was given since.
C6_Witness ==
    /\ gen_failed
    /\ listening
    /\ \A r \in Slots : Responded(r) /\ reqs[r].resp.status = 200 /\ GenerateReturned(r)

(* C7: the resolved configuration and the model handle are set once, at     *)
(* startup, and no request changes them; two requests with the same body    *)
(* and the same outcomes of the library calls are handled the same way.     *)
Outcomes(r) ==
    [i \in 1 .. Len(reqs[r].calls) |->
        <<reqs[r].calls[i].raised,
          IF reqs[r].calls[i].fn = "generate" THEN reqs[r].calls[i].ret ELSE <<>> >>]

C7_SameHandling ==
    \A r, q \in Slots :
        (Responded(r) /\ Responded(q) /\ reqs[r].body = reqs[q].body
            /\ Outcomes(r) = Outcomes(q)) => reqs[r] = reqs[q]

C7_Step ==
    /\ (MODEL_NAME # Unset => MODEL_NAME' = MODEL_NAME)
    /\ (MAX_TOKENS # Unset => MAX_TOKENS' = MAX_TOKENS)
    /\ (SYSTEM_PROMPT # Unset => SYSTEM_PROMPT' = SYSTEM_PROMPT)
    /\ (model.loaded => model' = model)
    /\ (listening => (globals' = globals /\ config' = config /\ load_calls' = load_calls))
    /\ C7_SameHandling'

C7_ConfigurationIsImmutable == [][C7_Step]_vars

C7_Witness ==
    \E r, q \in Slots :
        /\ r # q
        /\ Responded(r) /\ Responded(q)
        /\ HasPrompt(reqs[r].body, JStr(<<"Hi">>))
        /\ reqs[r] = reqs[q]
        /\ reqs[r].resp.status = 200
        /\ Len(reqs[r].messages) = 2

(* C8: the effective max_tokens is the document's value when it has the     *)
(* key and 256 when it has not, the effective system_prompt the document's  *)
(* value or the empty string; every call of generate() is given that        *)
(* max_tokens.                                                              *)
C8_EffectiveSettings ==
    LET max_tokens == IF "max_tokens" \in DOMAIN Document.o
                      THEN Document.o["max_tokens"] ELSE JInt(256)
        system_prompt == IF "system_prompt" \in DOMAIN Document.o
                         THEN Document.o["system_prompt"] ELSE JStr(<<>>)
    IN /\ MODEL_NAME # Unset => (MAX_TOKENS = max_tokens /\ SYSTEM_PROMPT = system_prompt)
       /\ \A r \in Slots : \A i \in CallsOf(r, "generate") :
              reqs[r].calls[i].max_tokens = max_tokens

C8_Witness ==
    /\ "max_tokens" \notin DOMAIN Document.o
    /\ "system_prompt" \notin DOMAIN Document.o
    /\ \E r \in Slots : \E i \in CallsOf(r, "generate") :
           reqs[r].calls[i].max_tokens = JInt(256)
    /\ \E r \in Slots : Responded(r) /\ Len(reqs[r].messages) = 1

(* C9: at every call of generate() its preconditions hold: max_tokens is a  *)
(* positive integer, the formatted prompt is not empty, the model is        *)
(* loaded.                                                                  *)
C9_GeneratePreconditions ==
    \A r \in Slots : \A i \in CallsOf(r, "generate") :
        /\ reqs[r].calls[i].max_tokens.t = "int"
        /\ reqs[r].calls[i].max_tokens.n > 0
        /\ reqs[r].calls[i].prompt # <<>>
        /\ model.loaded

(* C10: a request answered 400 has called neither the chat template nor      *)
(* generate(); an accepted request has, when it is answered, called the     *)
(* chat template and then generate(), once each; load() is called once, at  *)
(* startup.                                                                 *)
Fns(r) == [i \in 1 .. Len(reqs[r].calls) |-> reqs[r].calls[i].fn]

LoadedOnceAtStartup == load_calls <= 1 /\ (listening => load_calls = 1)

C10_ExactlyOnceEach ==
    /\ LoadedOnceAtStartup
    /\ \A r \in Slots :
           Responded(r) =>
               /\ reqs[r].resp.status = 400 => reqs[r].calls = <<>>
               /\ HasNonEmptyStringPrompt(reqs[r].body) =>
                      Fns(r) = <<"apply_chat_template", "generate">>

(* C10, amended: ... an accepted request has, when it is answered, called   *)
(* the chat template once and, when that call returned, generate() once     *)
(* after it; when the chat template raised, the request is answered with an *)
(* error and generate() was not called.                                     *)
C10_OnceEachUnlessTemplateRaises ==
    /\ LoadedOnceAtStartup
    /\ \A r \in Slots :
           Responded(r) =>
               /\ reqs[r].resp.status = 400 => reqs[r].calls = <<>>
               /\ HasNonEmptyStringPrompt(reqs[r].body) =>
                      IF reqs[r].calls[1].raised
                      THEN Fns(r) = <<"apply_chat_template">> /\ reqs[r].resp.status = 500
                      ELSE Fns(r) = <<"apply_chat_template", "generate">>

C10_Witness ==
    /\ \E r \in Slots :
           /\ Responded(r)
           /\ Fns(r) = <<"apply_chat_template">>
           /\ reqs[r].resp.status = 500
    /\ \E r \in Slots :
           /\ Responded(r)
           /\ Fns(r) = <<"apply_chat_template", "generate">>
           /\ reqs[r].calls[2].raised

====
